---- MODULE Spec2Model ----
(***************************************************************************)
(* A model of app.py: the scan orchestration (trigger_scan), the result    *)
(* retrieval (retrieve_results / process_report) and the remote scan       *)
(* management service they talk to.  The remote service is an environment: *)
(* it holds targets and tasks, and each of its calls either succeeds or    *)
(* raises GvmError.  It does not by itself keep target names unique: a     *)
(* create_target for a name that is taken may succeed as well as fail.     *)
(***************************************************************************)
EXTENDS Integers, Sequences, FiniteSets, TLC

VARIABLES
    targets,    \* remote service: the targets, in listing order, [id, name, hosts]
    tasks,      \* remote service: the tasks, [id, name, target_id, report_id]
    configs,    \* remote service: the scan configs, in listing order, [id, name]
    scanners,   \* remote service: the scanners, in listing order, [id, name]
    nextId,     \* remote service: the next fresh identifier
    call,       \* per worker: the frame of the operation it runs (pc and locals)
    ncalls,     \* number of operations started so far
    hist,       \* the last finished operations, in order of completion
    soft_failed, \* whether a conflicting-target step has met a remote error
    fin,        \* input of the pure function under check
    fout        \* output of the pure function under check

vars == <<targets, tasks, configs, scanners, nextId, call, ncalls, hist,
          soft_failed, fin, fout>>

remote == <<targets, tasks, configs, scanners, nextId>>
pure == <<fin, fout>>

----------------------------------------------------------------------------
(* Bounds *)

MaxCalls == 2

(* Two request workers: enough for two overlapping requests *)
Workers == {1, 2}
(* The worker of a server that serves one request at a time *)
SeqWorkers == {1}

(* Scan names: two that differ only in case, so exact matching is observable *)
ScanNames == {"web", "Web"}
HostLists == {"10.0.0.1", "10.0.0.1,10.0.0.2"}

DefaultConfigName == "Full and fast"
DefaultScannerName == "OpenVAS Default"

(* None: the Python None of an identifier that was not found or not set *)
None == 0

----------------------------------------------------------------------------
(* Helpers on listings *)

RECURSIVE FirstIndex(_, _, _)
(* Index of the first element of listing, from position i on, whose name
   equals name exactly; 0 when there is none (the for/if of the lookups). *)
FirstIndex(listing, name, i) ==
    IF i > Len(listing) THEN 0
    ELSE IF listing[i].name = name THEN i
    ELSE FirstIndex(listing, name, i + 1)

(* Names that differ only in case, folded to one of them *)
CaseFold(name) ==
    CASE name = "web" -> "Web"
      [] name = "full and fast" -> "Full and fast"
      [] name = "openvas default" -> "OpenVAS Default"
      [] OTHER -> name

RECURSIVE FirstIndexNoCase(_, _, _)
FirstIndexNoCase(listing, name, i) ==
    IF i > Len(listing) THEN 0
    ELSE IF CaseFold(listing[i].name) = CaseFold(name) THEN i
    ELSE FirstIndexNoCase(listing, name, i + 1)

(* Mutants of find_target: the search never matches; it ignores case *)
find_target_never(listing, target_name) == 0
find_target_nocase(listing, target_name) == FirstIndexNoCase(listing, target_name, 1)

(* for target in targets: if target.find('name').text == target_name *)
find_target(listing, target_name) == FirstIndex(listing, target_name, 1)

(* Mutants of find_config: the first config is the fallback; case is ignored *)
find_config_fallback(listing) ==
    LET i == FirstIndex(listing, "Full and fast", 1)
    IN IF i # 0 THEN listing[i].id
       ELSE IF Len(listing) > 0 THEN listing[1].id ELSE 0
find_config_nocase(listing) ==
    LET i == FirstIndexNoCase(listing, "Full and fast", 1)
    IN IF i = 0 THEN 0 ELSE listing[i].id

(* for config in configs.findall('config'):
     if config.find('name').text == 'Full and fast': return config.get('id')
   None stands for falling out of the loop. *)
find_config(listing) ==
    LET i == FirstIndex(listing, DefaultConfigName, 1)
    IN IF i = 0 THEN None ELSE listing[i].id

(* for scanner in scanners.findall('scanner'):
     if scanner.find('name').text == 'OpenVAS Default': return scanner.get('id') *)
find_scanner(listing) ==
    LET i == FirstIndex(listing, DefaultScannerName, 1)
    IN IF i = 0 THEN None ELSE listing[i].id

RemoveId(listing, id) ==
    SelectSeq(listing, LAMBDA t : t.id # id)

HasId(listing, id) == \E i \in 1..Len(listing) : listing[i].id = id

NamedCount(listing, name) ==
    Cardinality({i \in 1..Len(listing) : listing[i].name = name})

----------------------------------------------------------------------------
(* Python strings, as sequences of characters *)

NA == <<"N", "/", "A">>

Contains(s, ch) == \E i \in 1..Len(s) : s[i] = ch

RECURSIVE SplitFrom(_, _, _, _)
(* str.split(sep) for a one-character sep: the pieces between the
   separators, cur being the piece under construction at position i.
   The empty string gives one empty piece. *)
SplitFrom(s, sep, i, cur) ==
    IF i > Len(s) THEN <<cur>>
    ELSE IF s[i] = sep THEN <<cur>> \o SplitFrom(s, sep, i + 1, <<>>)
    ELSE SplitFrom(s, sep, i + 1, Append(cur, s[i]))

Split(s, sep) == SplitFrom(s, sep, 1, <<>>)

(* Mutant of vector_parts: the first element is kept *)
vector_parts_keep_first(severity_value) ==
    IF severity_value = <<>> THEN <<>> ELSE Split(severity_value, "/")

(* vector_parts = severity_value.split('/')[1:] if severity_value else [] *)
vector_parts(severity_value) ==
    IF severity_value = <<>> THEN <<>> ELSE Tail(Split(severity_value, "/"))

(* (vector_parts + ['N/A'] * 8)[:8] *)
pad8(parts) == SubSeq(parts \o [k \in 1..8 |-> NA], 1, 8)

(* Mutant of metric_value: the metric's key, the piece before the first ':' *)
metric_value_key(tok) == IF Contains(tok, ":") THEN Split(tok, ":")[1] ELSE tok

(* av = av.split(':')[1] if ':' in av else av *)
metric_value(tok) == IF Contains(tok, ":") THEN Split(tok, ":")[2] ELSE tok

(* The eight metrics AV, AC, PR, UI, S, C, I, A of a severity vector *)
cvss_metrics(severity_value) ==
    LET padded == pad8(vector_parts(severity_value))
    IN [k \in 1..8 |-> metric_value(padded[k])]

----------------------------------------------------------------------------
(* The report: the XML the remote service answers get_report with, the
   dictionary xmltodict.parse makes of it, and its normalization *)

(* A missing dictionary key, and the value None of an empty element *)
Absent == "<absent>"
Null == "<None>"

(* The path to the findings: get_reports_response / report / report /
   results / result, levels 1 to 5.
   The XML of a report: have is the number of nested path elements it holds
   (4: down to results), attrs tells whether the deepest of them carries
   attributes or other children, task is the name of the task element of
   the outer report (Absent without the element, Null for an empty one),
   findings are the result elements in document order. *)

(* xmltodict: an element without attributes and children parses to None, and
   a key is present only when the child element is.  For the path: the level
   whose key is missing (0: none) and the level whose value is None (0: none). *)
missing_at(xml) ==
    IF xml.have = 0 THEN 1
    ELSE IF xml.have < 4 THEN (IF xml.attrs THEN xml.have + 1 ELSE 0)
    ELSE IF Len(xml.findings) = 0 /\ xml.attrs THEN 5 ELSE 0

none_at(xml) ==
    IF xml.have = 0 THEN 0
    ELSE IF xml.have < 4 THEN (IF xml.attrs THEN 0 ELSE xml.have)
    ELSE IF Len(xml.findings) = 0 /\ ~xml.attrs THEN 4 ELSE 0

(* xmltodict: one child element of a name parses to a dictionary, several
   to a list of dictionaries *)
children_shape(n) == IF n = 1 THEN "dict" ELSE "list"

(* report_dict = xmltodict.parse(report_str) *)
xmltodict_parse(xml) ==
    [missing_at |-> missing_at(xml), none_at |-> none_at(xml),
     task |-> xml.task,
     shape |-> children_shape(Len(xml.findings)),
     result |-> xml.findings]

(* The outcome of an expression: the exception it raises ("" for none) and
   its value *)
Value(v) == [exc |-> "", value |-> v]
Raise(exc) == [exc |-> exc, value |-> <<>>]

(* scan_name = report_dict.get("get_reports_response", {}).get("report", {})
                          .get("task", {}).get("name", "N/A")
   .get on a None value raises AttributeError *)
get_scan_name(d) ==
    IF d.none_at \in {1, 2} THEN Raise("AttributeError")
    ELSE IF d.missing_at \in {1, 2} THEN Value("N/A")
    ELSE IF d.task = Null THEN Raise("AttributeError")
    ELSE IF d.task = Absent THEN Value("N/A")
    ELSE Value(d.task)

(* Mutant of get_hosts: the host of the first finding only *)
get_hosts_first(d) ==
    IF d.none_at # 0 THEN Raise("AttributeError")
    ELSE IF d.missing_at # 0 THEN Value({})
    ELSE IF d.shape = "dict" THEN Raise("TypeError")
    ELSE Value({d.result[1].host})

(* targets = list(set(result['host']['#text'] for result in
       report_dict.get(...)...get("results", {}).get("result", [])))
   Iterating a dictionary gives its keys, and indexing a key (a string) with
   'host' raises TypeError.  The order of list(set(..)) is not defined: the
   value is kept as a set. *)
get_hosts(d) ==
    IF d.none_at # 0 THEN Raise("AttributeError")
    ELSE IF d.missing_at # 0 THEN Value({})
    ELSE IF d.shape = "dict" THEN Raise("TypeError")
    ELSE Value({d.result[i].host : i \in 1..Len(d.result)})

(* cve: the '@id' of the first ref whose '@type' is 'cve', 'N/A' without one.
   refs = nvt.get('refs', {}).get('ref', []); a single ref is made a list. *)
RECURSIVE first_cve(_, _)
first_cve(refs, i) ==
    IF i > Len(refs) THEN "N/A"
    ELSE IF refs[i].type = "cve"
         THEN (IF refs[i].id = Absent THEN "N/A" ELSE refs[i].id)
    ELSE first_cve(refs, i + 1)

(* Mutant of get_refs: a single ref is not made a list, so that the loop runs
   over the keys of the dictionary and ref.get fails on a string *)
get_refs_no_wrap(nvt) ==
    IF ~nvt.has_refs THEN Value(<<>>)
    ELSE IF Len(nvt.refs) = 0 \/ children_shape(Len(nvt.refs)) = "dict"
         THEN Raise("AttributeError")
    ELSE Value(nvt.refs)

(* nvt.get('refs', {}).get('ref', []) and if not isinstance(refs, list):
   refs = [refs].  A refs element without ref children parses to None, on
   which .get raises AttributeError. *)
get_refs(nvt) ==
    IF ~nvt.has_refs THEN Value(<<>>)
    ELSE IF Len(nvt.refs) = 0 THEN Raise("AttributeError")
    ELSE Value(nvt.refs)

(* severity_value = nvt['severities']['severity']['value'] if all three keys
   are there, else '' *)
get_severity_value(nvt) == IF nvt.has_severity THEN nvt.severity ELSE <<>>

(* Mutant of process_result: the detail record takes the score with the
   default 'N/A', as the summary record does *)
process_result_default_score(result) ==
    LET nvt == result.nvt
        refs == get_refs(nvt)
        m == cvss_metrics(get_severity_value(nvt))
        score == IF nvt.cvss_base = Absent THEN "N/A" ELSE nvt.cvss_base
    IN IF refs.exc # "" THEN Raise(refs.exc)
       ELSE Value(
         [detail |-> [id |-> result.id, name |-> result.name,
                      score |-> score,
                      creation_time |-> result.creation_time,
                      modification_time |-> result.modification_time],
          summary |-> [Endpoint |-> result.host,
                       CVE |-> first_cve(refs.value, 1),
                       Score |-> score,
                       AV |-> m[1], AC |-> m[2], PR |-> m[3], UI |-> m[4],
                       S |-> m[5], C |-> m[6], I |-> m[7], A |-> m[8]]])

(* The body of the for loop of process_report on one finding *)
process_result(result) ==
    LET nvt == result.nvt
        refs == get_refs(nvt)
        m == cvss_metrics(get_severity_value(nvt))
    IN IF refs.exc # "" THEN Raise(refs.exc)
       ELSE IF nvt.cvss_base = Absent THEN Raise("KeyError")
       ELSE Value(
         [detail |-> [id |-> result.id, name |-> result.name,
                      score |-> nvt.cvss_base,
                      creation_time |-> result.creation_time,
                      modification_time |-> result.modification_time],
          summary |-> [Endpoint |-> result.host,
                       CVE |-> first_cve(refs.value, 1),
                       Score |-> IF nvt.cvss_base = Absent THEN "N/A"
                                 ELSE nvt.cvss_base,
                       AV |-> m[1], AC |-> m[2], PR |-> m[3], UI |-> m[4],
                       S |-> m[5], C |-> m[6], I |-> m[7], A |-> m[8]]])

RECURSIVE process_loop(_, _, _, _)
(* for result in results: ... append to detailed_results and summary_results;
   the first finding that raises ends the loop *)
process_loop(results, i, detailed_results, summary_results) ==
    IF i > Len(results)
    THEN Value([result_details |-> detailed_results,
                result_summary |-> summary_results])
    ELSE LET r == process_result(results[i])
         IN IF r.exc # "" THEN Raise(r.exc)
            ELSE process_loop(results, i + 1,
                              Append(detailed_results, r.value.detail),
                              Append(summary_results, r.value.summary))

(* The value None that process_report returns *)
PyNone == [none |-> TRUE]

(* process_report(data, scan_name, targets) *)
process_report(d, scan_name, hosts) ==
    IF d.missing_at # 0 THEN Value(PyNone)        \* except KeyError: return None
    ELSE IF d.none_at # 0 THEN Raise("TypeError") \* None[...] is no KeyError
    ELSE IF d.shape = "dict" THEN Raise("TypeError")
    ELSE LET r == process_loop(d.result, 1, <<>>, <<>>)
         IN IF r.exc # "" THEN Raise(r.exc)
            ELSE Value([none |-> FALSE, scan_name |-> scan_name,
                        targets |-> hosts,
                        result_details |-> r.value.result_details,
                        result_summary |-> r.value.result_summary])

(* Lines 175 to 183 of retrieve_results, on the answer of get_report *)
normalize(xml) ==
    LET d == xmltodict_parse(xml)
        scan_name == get_scan_name(d)
        hosts == get_hosts(d)
    IN IF scan_name.exc # "" THEN Raise(scan_name.exc)
       ELSE IF hosts.exc # "" THEN Raise(hosts.exc)
       ELSE process_report(d, scan_name.value, hosts.value)

----------------------------------------------------------------------------
(* Results of an operation *)

(* Mutant of Started: the returned dictionary carries no scan id *)
Started_without_id(scan_id) ==
    [kind |-> "ok", scan_id |-> None, exc |-> "", body |-> <<>>]

(* return {"message": "Scan started", ..., "scan_id": scan_id} *)
Started(scan_id) == [kind |-> "ok", scan_id |-> scan_id, exc |-> "", body |-> <<>>]
(* return results: the normalized report, or None *)
Returned(results) ==
    [kind |-> IF results.none THEN "null" ELSE "report", scan_id |-> None,
     exc |-> "", body |-> results]
(* except GvmError as e: return {"error": str(e)} *)
ErrorResult == [kind |-> "error", scan_id |-> None, exc |-> "GvmError", body |-> <<>>]
(* an exception that no except clause of the operation matches leaves it *)
Raised(exc) == [kind |-> "raised", scan_id |-> None, exc |-> exc, body |-> <<>>]

(* Mutant of except_clause: no exception is caught *)
except_clause_propagate(exc) == Raised(exc)

(* What the try statement of trigger_scan / retrieve_results makes of an
   exception raised in its body: GvmError is caught and turned into the
   error dictionary, anything else propagates to the caller. *)
except_clause(exc) ==
    IF exc = "GvmError" THEN ErrorResult ELSE Raised(exc)

(* Mutant of finally_disconnect: the session is left as it is *)
finally_keep(session) == session

(* finally: connection.disconnect() *)
finally_disconnect(session) == "closed"

(* Mutant of delete_target_except: the error is raised again *)
delete_target_except_propagate(exc) == Raise(exc)

(* What the try statement of delete_target_if_exists makes of a GvmError
   raised by get_targets or delete_target: it is logged, and False returned *)
delete_target_except(exc) ==
    IF exc = "GvmError" THEN Value("False") ELSE Raise(exc)

(* get_default_config_id(gmp): ok tells whether gmp.get_configs() answers *)
get_default_config_id(ok, listing) ==
    IF ~ok THEN Raise("GvmError")
    ELSE IF find_config(listing) = None THEN Raise("ValueError")
    ELSE Value(find_config(listing))

(* get_default_scanner_id(gmp): ok tells whether gmp.get_scanners() answers *)
get_default_scanner_id(ok, listing) ==
    IF ~ok THEN Raise("GvmError")
    ELSE IF find_scanner(listing) = None THEN Raise("ValueError")
    ELSE Value(find_scanner(listing))

(* The HTTP responses of the two routes *)

(* What Flask answers when the handler raises: 500 with an error page *)
InternalServerError ==
    [status |-> 500, body |-> [html |-> "Internal Server Error"]]

(* return jsonify({"error": "scan_name, targets, are required"}), 400 *)
BadRequest ==
    [status |-> 400, body |-> [error |-> "scan_name, targets, are required"]]

(* trigger_scan_api after trigger_scan: result = trigger_scan(...);
   if "error" in result: return jsonify(result), 500; return jsonify(result) *)
trigger_scan_api_response(scan_name, targets_arg, result) ==
    IF result.kind = "raised" THEN InternalServerError
    ELSE IF result.kind = "error"
    THEN [status |-> 500, body |-> [error |-> result.exc]]
    ELSE [status |-> 200,
          body |-> [message |-> "Scan started", scan_name |-> scan_name,
                    targets |-> targets_arg, scan_id |-> result.scan_id]]

(* get_results: results = retrieve_results(scan_id); return jsonify(results) *)
get_results_response(result) ==
    IF result.kind = "raised" THEN InternalServerError
    ELSE IF result.kind = "error"
    THEN [status |-> 200, body |-> [error |-> result.exc]]
    ELSE [status |-> 200, body |-> result.body]

(* Mutant of truthy: only a missing value is refused, the empty string is
   taken *)
truthy_unless_missing(v) == v # Null

(* The truth value of a JSON string or null: None and '' are false *)
truthy(v) == v \notin {Null, ""}

(* all([scan_name, targets]) *)
all_of(values) == \A i \in 1..Len(values) : truthy(values[i])

(* The frame of an operation: its position, its arguments and locals, the
   state of its session, and what it did so far: the remote calls it issued,
   in order, those of them that raised GvmError, and the targets of the
   remote service when delete_target_if_exists was entered. *)
IdleFrame ==
    [pc |-> "idle", op |-> "none", scan_name |-> "", hosts |-> "",
     session |-> "closed", del_id |-> None, del_ret |-> "unset",
     target_id |-> None, config_id |-> None,
     scanner_id |-> None, task_id |-> None, scan_id |-> None,
     issued |-> <<>>, errors |-> {}, pre_targets |-> <<>>]

(* What is remembered of a finished operation *)
Finished(c, res) ==
    [op |-> c.op, scan_name |-> c.scan_name,
     scan_id |-> c.scan_id, result |-> res,
     session |-> finally_disconnect(c.session),
     del_ret |-> c.del_ret, issued |-> c.issued, errors |-> c.errors,
     target_id |-> c.target_id, task_id |-> c.task_id,
     pre_count |-> NamedCount(c.pre_targets, c.scan_name),
     response |-> IF c.op = "trigger_scan"
                  THEN trigger_scan_api_response(c.scan_name, c.hosts, res)
                  ELSE get_results_response(res)]

(* The last two finished operations *)
Remember(h, e) == IF Len(h) < 2 THEN Append(h, e) ELSE Append(Tail(h), e)

(* The operation of worker p, whose frame is c, ends with result res: the
   finally clause runs, the frame is left and the result is handed to the
   caller. *)
LeaveWith(p, c, res) ==
    /\ call' = [call EXCEPT ![p] = IdleFrame]
    /\ hist' = Remember(hist, Finished(c, res))

(* The frame c after it issued the remote call opname, which answered (ok)
   or raised GvmError *)
Issue(c, opname, ok) ==
    [c EXCEPT !.issued = Append(c.issued, opname),
              !.errors = IF ok THEN c.errors ELSE c.errors \cup {opname}]

AllIdle == \A p \in Workers : call[p].pc = "idle"

----------------------------------------------------------------------------
(* Initial states *)

(* The remote service starts without a target or with one named "web";
   the scans are named "web" or "Web", so a start with "Web" adds no case *)
InitTargetLists ==
    { <<>>, <<[id |-> 1, name |-> "web", hosts |-> "10.0.0.1"]>> }

(* Config listings: the expected name alone; a case variant and a longer
   name, without the expected one *)
ConfigLists ==
    { <<[id |-> 11, name |-> "Full and fast"]>>,
      <<[id |-> 12, name |-> "full and fast"],
        [id |-> 13, name |-> "Full and fast ultimate"]>> }

(* Scanner listings: the expected name after another; a prefix of it only *)
ScannerLists ==
    { <<[id |-> 21, name |-> "CVE"], [id |-> 22, name |-> "OpenVAS Default"]>>,
      <<[id |-> 23, name |-> "OpenVAS"]>> }

HasNamed(listing, name) == \E i \in 1..Len(listing) : listing[i].name = name

(* Findings and reports the remote service answers with *)
Vector31 ==
    <<"C","V","S","S",":","3",".","1","/","A","V",":","N","/","A","C",":","L",
      "/","P","R",":","N","/","U","I",":","N","/","S",":","U","/","C",":","H",
      "/","I",":","H","/","A",":","H">>

Finding(id, host, cvss_base) ==
    [id |-> id, name |-> "finding", host |-> host,
     creation_time |-> "t0", modification_time |-> "t1",
     nvt |-> [has_refs |-> TRUE,
              refs |-> <<[type |-> "cve", id |-> "CVE-2023-0001"],
                         [type |-> "bid", id |-> "123"]>>,
              cvss_base |-> cvss_base,
              has_severity |-> TRUE, severity |-> Vector31]]

Report(have, attrs, findings) ==
    [have |-> have, attrs |-> attrs, task |-> "web", findings |-> findings]

(* Two findings; one finding; none (results with and without attributes);
   no inner report; a finding without cvss_base *)
Reports ==
    { Report(4, TRUE, <<Finding("r1", "10.0.0.1", "7.5"),
                        Finding("r2", "10.0.0.1", "5.0")>>),
      Report(4, TRUE, <<Finding("r1", "10.0.0.1", "7.5")>>),
      Report(4, TRUE, <<>>),
      Report(4, FALSE, <<>>),
      Report(2, TRUE, <<>>),
      Report(4, TRUE, <<Finding("r1", "10.0.0.1", "7.5"),
                        Finding("r2", "10.0.0.2", Absent)>>) }

(* A scan id no report of the remote service has *)
UnknownScanIds == {999}

ReportIds == { tasks[i].report_id : i \in 1..Len(tasks) } \ {None}

(* No operation under way, none finished *)
NoCalls ==
    /\ call = [p \in Workers |-> IdleFrame]
    /\ ncalls = 0
    /\ hist = <<>>
    /\ soft_failed = FALSE

(* The remote service holds at most one target, no task, and a config or a
   scanner of the expected name (with neither, an operation ends as with
   the config alone missing) *)
Init ==
    /\ targets \in InitTargetLists
    /\ tasks = <<>>
    /\ configs \in ConfigLists
    /\ scanners \in ScannerLists
    /\ HasNamed(configs, DefaultConfigName) \/ HasNamed(scanners, DefaultScannerName)
    /\ nextId = 100
    /\ NoCalls
    /\ fin = <<>>
    /\ fout = <<>>

----------------------------------------------------------------------------
(* trigger_scan *)

(* trigger_scan(scan_name, targets, port_list_id) is entered *)
trigger_scan(p, scan_name, hosts) ==
    /\ call[p].pc = "idle"
    /\ ncalls < MaxCalls
    /\ ncalls' = ncalls + 1
    /\ call' = [call EXCEPT ![p] = [IdleFrame EXCEPT !.pc = "connect",
                                                     !.op = "trigger_scan",
                                                     !.scan_name = scan_name,
                                                     !.hosts = hosts]]
    /\ UNCHANGED <<remote, hist, pure>>
    /\ UNCHANGED soft_failed

(* with Gmp(connection, transform=transform) as gmp: the session is opened *)
gmp_connect(p) ==
    /\ call[p].pc = "connect"
    /\ \E ok \in BOOLEAN :
         LET c == Issue(call[p], "connect", ok) IN
         IF ok
         THEN /\ call' = [call EXCEPT ![p] =
                    [c EXCEPT !.pc = "authenticate", !.session = "open"]]
              /\ UNCHANGED hist
         ELSE LeaveWith(p, c, except_clause("GvmError"))
    /\ UNCHANGED <<remote, ncalls, pure>>
    /\ UNCHANGED soft_failed

(* gmp.authenticate(username='admin', password='admin') *)
gmp_authenticate(p) ==
    /\ call[p].pc = "authenticate"
    /\ \E ok \in BOOLEAN :
         LET c == Issue(call[p], "authenticate", ok) IN
         IF ok
         THEN /\ call' = [call EXCEPT ![p] =
                    [c EXCEPT !.pc = IF c.op = "trigger_scan"
                                     THEN "get_targets" ELSE "get_report"]]
              /\ UNCHANGED hist
         ELSE LeaveWith(p, c, except_clause("GvmError"))
    /\ UNCHANGED <<remote, ncalls, pure>>
    /\ UNCHANGED soft_failed

(* delete_target_if_exists: targets_resp = gmp.get_targets() and the search
   of the listing; without a match, return False. *)
get_targets(p) ==
    /\ call[p].pc = "get_targets"
    /\ \E ok \in BOOLEAN :
         LET c == [Issue(call[p], "get_targets", ok)
                      EXCEPT !.pre_targets = targets]
             i == find_target(targets, c.scan_name)
             e == delete_target_except("GvmError")
         IN /\ soft_failed' = (soft_failed \/ ~ok)
            /\ IF ~ok /\ e.exc # ""
               THEN LeaveWith(p, c, except_clause(e.exc))
               ELSE /\ call' = [call EXCEPT ![p] =
                          IF ~ok
                          THEN [c EXCEPT !.pc = "create_target",
                                         !.del_ret = e.value]
                          ELSE IF i = 0
                          THEN [c EXCEPT !.pc = "create_target",
                                         !.del_ret = "False"]
                          ELSE [c EXCEPT !.pc = "delete_target",
                                         !.del_id = targets[i].id]]
                    /\ UNCHANGED hist
    /\ UNCHANGED <<remote, ncalls, pure>>

(* delete_target_if_exists: gmp.delete_target(target_id=target_id); return
   True.  The remote service fails the call when the target is gone. *)
delete_target(p) ==
    /\ call[p].pc = "delete_target"
    /\ \E answer \in BOOLEAN :
         LET ok == answer /\ HasId(targets, call[p].del_id)
             c == Issue(call[p], "delete_target", ok)
             e == delete_target_except("GvmError")
         IN /\ soft_failed' = (soft_failed \/ ~ok)
            /\ IF ok
               THEN /\ targets' = RemoveId(targets, c.del_id)
                    /\ call' = [call EXCEPT ![p] =
                          [c EXCEPT !.pc = "create_target", !.del_ret = "True"]]
                    /\ UNCHANGED hist
               ELSE IF e.exc # ""
               THEN /\ LeaveWith(p, c, except_clause(e.exc))
                    /\ UNCHANGED targets
               ELSE /\ call' = [call EXCEPT ![p] =
                          [c EXCEPT !.pc = "create_target", !.del_ret = e.value]]
                    /\ UNCHANGED <<targets, hist>>
    /\ UNCHANGED <<tasks, configs, scanners, nextId, ncalls, pure>>

(* target_resp = gmp.create_target(name=scan_name, hosts=targets, ...);
   target_id = the id of the response *)
create_target(p) ==
    /\ call[p].pc = "create_target"
    /\ \E ok \in BOOLEAN :
         LET c == Issue(call[p], "create_target", ok) IN
         IF ok
         THEN /\ targets' = Append(targets, [id |-> nextId, name |-> c.scan_name,
                                             hosts |-> c.hosts])
              /\ nextId' = nextId + 1
              /\ call' = [call EXCEPT ![p] =
                    [c EXCEPT !.pc = "get_configs", !.target_id = nextId]]
              /\ UNCHANGED hist
         ELSE /\ LeaveWith(p, c, except_clause("GvmError"))
              /\ UNCHANGED <<targets, nextId>>
    /\ UNCHANGED <<tasks, configs, scanners, ncalls, pure>>
    /\ UNCHANGED soft_failed

(* config_id = get_default_config_id(gmp) *)
get_configs(p) ==
    /\ call[p].pc = "get_configs"
    /\ \E ok \in BOOLEAN :
         LET c == Issue(call[p], "get_configs", ok)
             r == get_default_config_id(ok, configs)
         IN IF r.exc # "" THEN LeaveWith(p, c, except_clause(r.exc))
            ELSE /\ call' = [call EXCEPT ![p] =
                       [c EXCEPT !.pc = "get_scanners", !.config_id = r.value]]
                 /\ UNCHANGED hist
    /\ UNCHANGED <<remote, ncalls, pure>>
    /\ UNCHANGED soft_failed

(* scanner_id = get_default_scanner_id(gmp) *)
get_scanners(p) ==
    /\ call[p].pc = "get_scanners"
    /\ \E ok \in BOOLEAN :
         LET c == Issue(call[p], "get_scanners", ok)
             r == get_default_scanner_id(ok, scanners)
         IN IF r.exc # "" THEN LeaveWith(p, c, except_clause(r.exc))
            ELSE /\ call' = [call EXCEPT ![p] =
                       [c EXCEPT !.pc = "create_task", !.scanner_id = r.value]]
                 /\ UNCHANGED hist
    /\ UNCHANGED <<remote, ncalls, pure>>
    /\ UNCHANGED soft_failed

(* task_resp = gmp.create_task(name=scan_name, config_id=config_id,
   target_id=target_id, scanner_id=scanner_id); task_id = the id of the
   response.  The remote service fails the call when the target is gone. *)
create_task(p) ==
    /\ call[p].pc = "create_task"
    /\ \E answer \in BOOLEAN :
         LET ok == answer /\ HasId(targets, call[p].target_id)
             c == Issue(call[p], "create_task", ok)
         IN IF ok
            THEN /\ tasks' = Append(tasks, [id |-> nextId, name |-> c.scan_name,
                                            target_id |-> c.target_id,
                                            config_id |-> c.config_id,
                                            scanner_id |-> c.scanner_id,
                                            report_id |-> None])
                 /\ nextId' = nextId + 1
                 /\ call' = [call EXCEPT ![p] =
                       [c EXCEPT !.pc = "start_task", !.task_id = nextId]]
                 /\ UNCHANGED hist
            ELSE /\ LeaveWith(p, c, except_clause("GvmError"))
                 /\ UNCHANGED <<tasks, nextId>>
    /\ UNCHANGED <<targets, configs, scanners, ncalls, pure>>
    /\ UNCHANGED soft_failed

(* start_task_resp = gmp.start_task(task_id); scan_id = its report id;
   return {"message": "Scan started", ...} *)
start_task(p) ==
    /\ call[p].pc = "start_task"
    /\ \E answer \in BOOLEAN :
         LET ok == answer /\ HasId(tasks, call[p].task_id)
             c == Issue(call[p], "start_task", ok)
         IN IF ok
            THEN /\ tasks' = [i \in 1..Len(tasks) |->
                                IF tasks[i].id = c.task_id
                                THEN [tasks[i] EXCEPT !.report_id = nextId]
                                ELSE tasks[i]]
                 /\ nextId' = nextId + 1
                 /\ LeaveWith(p, [c EXCEPT !.scan_id = nextId], Started(nextId))
            ELSE /\ LeaveWith(p, c, except_clause("GvmError"))
                 /\ UNCHANGED <<tasks, nextId>>
    /\ UNCHANGED <<targets, configs, scanners, ncalls, pure>>
    /\ UNCHANGED soft_failed

----------------------------------------------------------------------------
(* retrieve_results *)

(* retrieve_results(scan_id) is entered *)
retrieve_results(p, scan_id) ==
    /\ call[p].pc = "idle"
    /\ ncalls < MaxCalls
    /\ ncalls' = ncalls + 1
    /\ call' = [call EXCEPT ![p] = [IdleFrame EXCEPT !.pc = "connect",
                                                     !.op = "retrieve_results",
                                                     !.scan_id = scan_id]]
    /\ UNCHANGED <<remote, hist, pure>>
    /\ UNCHANGED soft_failed

(* What retrieve_results hands back for the report xml that get_report
   answered with: the normalized report or None, or what its try statement
   makes of an exception of the normalization *)
retrieve_body(xml) ==
    LET r == normalize(xml)
    IN IF r.exc # "" THEN except_clause(r.exc) ELSE Returned(r.value)

(* report_resp = gmp.get_report(report_id=scan_id, ...), which the remote
   service fails for an id it has no report of, and the rest of the body:
   the report is parsed and normalized and the result returned. *)
get_report(p) ==
    /\ call[p].pc = "get_report"
    /\ \E answer \in BOOLEAN, xml \in Reports :
         LET ok == answer /\ call[p].scan_id \in ReportIds
             c == Issue(call[p], "get_report", ok)
         IN IF ok
            THEN LeaveWith(p, c, retrieve_body(xml))
            ELSE LeaveWith(p, c, except_clause("GvmError"))
    /\ UNCHANGED <<remote, ncalls, pure>>
    /\ UNCHANGED soft_failed

----------------------------------------------------------------------------
(* Requests served one after the other: a request is taken up only when no
   other is being served. *)
Next ==
    \/ \E p \in SeqWorkers, n \in ScanNames, h \in HostLists :
           AllIdle /\ trigger_scan(p, n, h)
    \/ \E p \in SeqWorkers, id \in ReportIds \cup UnknownScanIds :
           AllIdle /\ retrieve_results(p, id)
    \/ \E p \in Workers : gmp_connect(p)
    \/ \E p \in Workers : gmp_authenticate(p)
    \/ \E p \in Workers : get_targets(p)
    \/ \E p \in Workers : delete_target(p)
    \/ \E p \in Workers : create_target(p)
    \/ \E p \in Workers : get_configs(p)
    \/ \E p \in Workers : get_scanners(p)
    \/ \E p \in Workers : create_task(p)
    \/ \E p \in Workers : start_task(p)
    \/ \E p \in Workers : get_report(p)

Spec == Init /\ [][Next]_vars

----------------------------------------------------------------------------
(* trigger_scan requests served at the same time, each arriving before any
   of them is answered: the handlers share no lock and no state but the
   remote service, so that the remote calls of two requests interleave in
   any order. *)
NextConc ==
    \/ \E p \in Workers, n \in ScanNames, h \in HostLists :
           hist = <<>> /\ trigger_scan(p, n, h)
    \/ \E p \in Workers : gmp_connect(p)
    \/ \E p \in Workers : gmp_authenticate(p)
    \/ \E p \in Workers : get_targets(p)
    \/ \E p \in Workers : delete_target(p)
    \/ \E p \in Workers : create_target(p)
    \/ \E p \in Workers : get_configs(p)
    \/ \E p \in Workers : get_scanners(p)
    \/ \E p \in Workers : create_task(p)
    \/ \E p \in Workers : start_task(p)

SpecConc == Init /\ [][NextConc]_vars

----------------------------------------------------------------------------
(* The /trigger_scan route on one request, whose JSON payload holds, for
   scan_name and for targets, a string, the empty string or nothing *)

NameInputs == ScanNames \cup {"", Null}
TargetInputs == HostLists \cup {"", Null}

(* trigger_scan was not called *)
NotCalled == [kind |-> "none", scan_id |-> None, exc |-> "", body |-> <<>>]

(* The record of a request that trigger_scan_api answered by itself, with
   the two values of its payload *)
Rejected(scan_name, targets_arg) ==
    [op |-> "trigger_scan_api", scan_name |-> scan_name,
     hosts |-> targets_arg, scan_id |-> None, result |-> NotCalled,
     session |-> "closed", del_ret |-> "unset", issued |-> <<>>,
     errors |-> {}, target_id |-> None, task_id |-> None, pre_count |-> 0,
     response |-> BadRequest]

(* trigger_scan_api: scan_name = data.get('scan_name'); targets =
   data.get('targets'); if not all([scan_name, targets]): return ..., 400;
   result = trigger_scan(scan_name, targets, port_list_id) *)
trigger_scan_api(p, scan_name, targets_arg) ==
    IF all_of(<<scan_name, targets_arg>>)
    THEN trigger_scan(p, scan_name, targets_arg)
    ELSE /\ call[p].pc = "idle"
         /\ ncalls < MaxCalls
         /\ ncalls' = ncalls + 1
         /\ hist' = Remember(hist, Rejected(scan_name, targets_arg))
         /\ UNCHANGED <<remote, call, pure>>
         /\ UNCHANGED soft_failed

NextApi ==
    \/ \E p \in SeqWorkers, n \in NameInputs, h \in TargetInputs :
           AllIdle /\ hist = <<>> /\ trigger_scan_api(p, n, h)
    \/ \E p \in Workers : gmp_connect(p)
    \/ \E p \in Workers : gmp_authenticate(p)
    \/ \E p \in Workers : get_targets(p)
    \/ \E p \in Workers : delete_target(p)
    \/ \E p \in Workers : create_target(p)
    \/ \E p \in Workers : get_configs(p)
    \/ \E p \in Workers : get_scanners(p)
    \/ \E p \in Workers : create_task(p)
    \/ \E p \in Workers : start_task(p)

SpecApi == Init /\ [][NextApi]_vars

----------------------------------------------------------------------------
(* Name-to-id resolution on its own: get_default_config_id and
   get_default_scanner_id on every listing of up to MaxListLen entities *)

MaxListLen == 2

ConfigNames ==
    {"Full and fast", "full and fast", "Full and fast ultimate", "Full"}
ScannerNames ==
    {"OpenVAS Default", "openvas default", "OpenVAS", "OpenVAS Default 2"}

(* The listings of up to MaxListLen entities with these names; the ids
   follow the positions, counted from base *)
Listings(names, base) ==
    UNION { { [i \in 1..n |-> [id |-> base + i, name |-> f[i]]] :
              f \in [1..n -> names] } : n \in 0..MaxListLen }

Unset == [exc |-> "unset", value |-> <<>>]

InitResolve ==
    /\ targets = <<>>
    /\ tasks = <<>>
    /\ configs \in Listings(ConfigNames, 10)
    /\ scanners \in Listings(ScannerNames, 20)
    /\ nextId = 100
    /\ NoCalls
    /\ fin = <<>>
    /\ fout = [config |-> Unset, scanner |-> Unset]

resolve_config ==
    /\ fout.config = Unset
    /\ \E ok \in BOOLEAN :
         fout' = [fout EXCEPT !.config = get_default_config_id(ok, configs)]
    /\ UNCHANGED <<remote, call, ncalls, hist, fin>>
    /\ UNCHANGED soft_failed

resolve_scanner ==
    /\ fout.scanner = Unset
    /\ \E ok \in BOOLEAN :
         fout' = [fout EXCEPT !.scanner = get_default_scanner_id(ok, scanners)]
    /\ UNCHANGED <<remote, call, ncalls, hist, fin>>
    /\ UNCHANGED soft_failed

NextResolve == resolve_config \/ resolve_scanner

SpecResolve == InitResolve /\ [][NextResolve]_vars

----------------------------------------------------------------------------
(* The CVSS decomposition on its own: every severity value of up to
   MaxVecLen characters over separators and a letter, and a CVSS 3.1 vector *)

MaxVecLen == 9

VecChars == {"/", ":", "N"}

VecStrings == UNION { [1..n -> VecChars] : n \in 0..MaxVecLen }

InitCvss ==
    /\ targets = <<>>
    /\ tasks = <<>>
    /\ configs = <<>>
    /\ scanners = <<>>
    /\ nextId = 100
    /\ NoCalls
    /\ fin \in VecStrings \cup {Vector31}
    /\ fout = <<>>

decompose ==
    /\ fout = <<>>
    /\ fout' = cvss_metrics(fin)
    /\ UNCHANGED <<remote, call, ncalls, hist, fin>>
    /\ UNCHANGED soft_failed

NextCvss == decompose

SpecCvss == InitCvss /\ [][NextCvss]_vars

----------------------------------------------------------------------------
(* The normalization of a report on its own: every report of up to
   MaxFindings findings, each with or without cvss_base, on one of two hosts
   and with one of the reference lists below, at every depth of the path to
   the findings *)

MaxFindings == 2

Cve(id) == [type |-> "cve", id |-> id]
Bid(id) == [type |-> "bid", id |-> id]

(* no refs element; an empty refs element; one cve ref; one other ref;
   several refs with two of type cve; a cve ref without id first *)
RefElements ==
    { [has_refs |-> FALSE, refs |-> <<>>],
      [has_refs |-> TRUE, refs |-> <<>>],
      [has_refs |-> TRUE, refs |-> <<Cve("CVE-2023-0001")>>],
      [has_refs |-> TRUE, refs |-> <<Bid("123")>>],
      [has_refs |-> TRUE,
       refs |-> <<Bid("123"), Cve("CVE-2023-0002"), Cve("CVE-2023-0001")>>],
      [has_refs |-> TRUE, refs |-> <<Cve(Absent), Cve("CVE-2023-0001")>>] }

Hosts == {"10.0.0.1", "10.0.0.2"}
Scores == {"7.5", Absent}

FindingWith(host, cvss_base, r) ==
    [Finding("r1", host, cvss_base) EXCEPT !.nvt.has_refs = r.has_refs,
                                           !.nvt.refs = r.refs]

Findings ==
    { FindingWith(h, c, r) : h \in Hosts, c \in Scores, r \in RefElements }

FindingLists == UNION { [1..n -> Findings] : n \in 0..MaxFindings }

TaskNames == {"web", Absent, Null}

ReportInputs ==
    { [have |-> 4, attrs |-> a, task |-> t, findings |-> f] :
        a \in BOOLEAN, t \in TaskNames, f \in FindingLists }
    \cup
    { [have |-> h, attrs |-> a, task |-> IF h >= 2 THEN t ELSE Absent,
       findings |-> <<>>] :
        h \in 0..3, a \in BOOLEAN, t \in TaskNames }

Pending == [kind |-> "pending", scan_id |-> None, exc |-> "", body |-> <<>>]

InitReport ==
    /\ targets = <<>>
    /\ tasks = <<>>
    /\ configs = <<>>
    /\ scanners = <<>>
    /\ nextId = 100
    /\ NoCalls
    /\ fin \in ReportInputs
    /\ fout = Pending

normalize_report ==
    /\ fout = Pending
    /\ fout' = retrieve_body(fin)
    /\ UNCHANGED <<remote, call, ncalls, hist, fin>>
    /\ UNCHANGED soft_failed

NextReport == normalize_report

SpecReport == InitReport /\ [][NextReport]_vars

----------------------------------------------------------------------------
(* Properties *)

IsTrigger(e) == e.op = "trigger_scan"
Last(q) == q[Len(q)]
Ids(listing) == { listing[i].id : i \in 1..Len(listing) }
DeleteSteps == {"get_targets", "delete_target"}
Times(q, x) == Cardinality({ i \in 1..Len(q) : q[i] = x })
Occurs(q, x) == \E i \in 1..Len(q) : q[i] = x

(* The last two finished operations are two trigger_scan calls with the same
   name that both returned a scan id, and no operation is under way *)
TwiceInSequence ==
    /\ AllIdle
    /\ Len(hist) = 2
    /\ IsTrigger(hist[1]) /\ IsTrigger(hist[2])
    /\ hist[1].scan_name = hist[2].scan_name
    /\ hist[1].result.kind = "ok" /\ hist[2].result.kind = "ok"

(* C1, as stated: after trigger_scan ran twice in sequence with the same name
   and succeeded both times, exactly one target and exactly one task with
   that name exist on the remote service. *)
C1_OneTargetOneTask ==
    TwiceInSequence =>
        /\ NamedCount(targets, hist[2].scan_name) = 1
        /\ NamedCount(tasks, hist[2].scan_name) = 1

(* C1, amended: after trigger_scan ran twice in sequence with the same name
   and succeeded both times, on a service that held at most one target of
   that name before and with no remote error in the conflicting-target step
   of either call, exactly one target with that name exists, the one the
   second call created (the first call's target was deleted); the tasks of
   both calls exist, since no task is ever deleted. *)
C1_OneTargetBothTasks ==
    ( /\ TwiceInSequence
      /\ hist[1].pre_count <= 1
      /\ (hist[1].errors \cup hist[2].errors) \cap DeleteSteps = {} )
    =>  /\ NamedCount(targets, hist[2].scan_name) = 1
        /\ hist[2].target_id \in Ids(targets)
        /\ hist[1].target_id \notin Ids(targets)
        /\ {hist[1].task_id, hist[2].task_id} \subseteq Ids(tasks)
        /\ hist[1].task_id # hist[2].task_id
        /\ NamedCount(tasks, hist[2].scan_name) >= 2

C1_Witness ==
    /\ TwiceInSequence
    /\ hist[1].pre_count = 1
    /\ (hist[1].errors \cup hist[2].errors) = {}
    /\ hist[2].del_ret = "True"
    /\ NamedCount(targets, hist[2].scan_name) = 1
    /\ NamedCount(tasks, hist[2].scan_name) = 2

(* C2, as stated: no failure inside trigger_scan or retrieve_results leaves
   the operation as an exception; each ends in a returned result. *)
C2_NoFailureEscapes ==
    \A i \in 1..Len(hist) : hist[i].result.kind # "raised"

(* C3: whenever trigger_scan or retrieve_results ends, by a return, by a
   handled GvmError or by an exception that propagates, its session is
   disconnected; and a worker that runs no operation holds no open session. *)
C3_SessionClosedOnExit ==
    /\ \A i \in 1..Len(hist) : hist[i].session = "closed"
    /\ \A p \in Workers : call[p].pc = "idle" => call[p].session = "closed"

C3_Witness ==
    \E i \in 1..Len(hist) :
        /\ hist[i].result.kind = "raised"
        /\ Occurs(hist[i].issued, "authenticate")
        /\ "authenticate" \notin hist[i].errors
        /\ hist[i].session = "closed"

(* What C4 says of the steps in the set steps: a remote error in one of them
   ends the call there with the error result; and after a call that ended
   with the error result, the target and the task it had created are still
   on the remote service. *)
AbortsWithoutRollback(steps) ==
    /\ \A i \in 1..Len(hist) :
         IsTrigger(hist[i]) =>
           \A op \in hist[i].errors \cap steps :
               /\ hist[i].result = ErrorResult
               /\ Last(hist[i].issued) = op
    /\ ( AllIdle /\ hist # <<>> /\ IsTrigger(Last(hist))
         /\ Last(hist).result.kind = "error" )
       => /\ Last(hist).target_id # None => Last(hist).target_id \in Ids(targets)
          /\ Last(hist).task_id # None => Last(hist).task_id \in Ids(tasks)

TriggerSteps ==
    {"connect", "authenticate", "get_targets", "delete_target", "create_target",
     "get_configs", "get_scanners", "create_task", "start_task"}

(* C4, as stated: in trigger_scan a remote error at any step, the lookup and
   the deletion of the conflicting target included, aborts the remaining
   steps and returns the error result, without rollback. *)
C4_AnyStepAborts == AbortsWithoutRollback(TriggerSteps)

(* C4, amended: in trigger_scan a remote error at any step other than the
   lookup and the deletion of the conflicting target (whose errors
   delete_target_if_exists swallows, the call going on with create_target)
   aborts the remaining steps and returns the error result; the target and
   the task the call created before are left in place. *)
C4_StepsButDeleteAbort == AbortsWithoutRollback(TriggerSteps \ DeleteSteps)

C4_Witness ==
    /\ AllIdle /\ hist # <<>> /\ IsTrigger(Last(hist))
    /\ Last(hist).errors = {"start_task"}
    /\ Last(hist).result = ErrorResult
    /\ Last(hist).target_id \in Ids(targets)
    /\ Last(hist).task_id \in Ids(tasks)

NoDefaults ==
    \/ ~HasNamed(configs, "Full and fast")
    \/ ~HasNamed(scanners, "OpenVAS Default")

(* C5: on a remote service without a config named 'Full and fast' or without
   a scanner named 'OpenVAS Default', trigger_scan never issues create_task
   or start_task and never returns a scan id; the listing that lacks the
   name is asked for once, and the call ends there with ValueError. *)
C5_NotFoundIsFatal ==
    NoDefaults =>
      /\ tasks = <<>>
      /\ \A p \in Workers : call[p].pc \notin {"create_task", "start_task"}
      /\ \A i \in 1..Len(hist) :
           LET e == hist[i] IN
           IsTrigger(e) =>
             /\ e.result.kind # "ok"
             /\ ~Occurs(e.issued, "create_task")
             /\ ~Occurs(e.issued, "start_task")
             /\ Times(e.issued, "get_configs") <= 1
             /\ Times(e.issued, "get_scanners") <= 1
             /\ ( /\ Occurs(e.issued, "get_configs")
                  /\ "get_configs" \notin e.errors
                  /\ ~HasNamed(configs, "Full and fast") )
                => e.result = Raised("ValueError") /\ Last(e.issued) = "get_configs"
             /\ ( /\ Occurs(e.issued, "get_scanners")
                  /\ "get_scanners" \notin e.errors
                  /\ ~HasNamed(scanners, "OpenVAS Default") )
                => e.result = Raised("ValueError") /\ Last(e.issued) = "get_scanners"

C5_Witness ==
    /\ ~HasNamed(scanners, "OpenVAS Default")
    /\ hist # <<>>
    /\ IsTrigger(Last(hist))
    /\ Last(hist).result = Raised("ValueError")
    /\ Last(Last(hist).issued) = "get_scanners"

AtMostOnePerName == \A n \in ScanNames : NamedCount(targets, n) <= 1

(* C6, as stated: whatever sequential trigger_scan calls ran and however
   they ended, at most one target with a given name exists at any time. *)
C6_AtMostOneTarget == AtMostOnePerName

(* C6, amended: on a remote service that starts with at most one target per
   name, sequential trigger_scan calls keep at most one target per name as
   long as no conflicting-target step (listing or deleting targets) has met
   a remote error; after such an error create_target is still issued and
   two targets of a name can exist. *)
C6_AtMostOneUnlessDeleteFailed == ~soft_failed => AtMostOnePerName

C6_Witness ==
    \E p \in Workers :
        /\ call[p].pc = "get_configs"
        /\ call[p].del_ret = "True"
        /\ NamedCount(call[p].pre_targets, call[p].scan_name) = 1
        /\ NamedCount(targets, call[p].scan_name) = 1

(* C7: when delete_target_if_exists has returned (the call is about to
   create its target), it returned True exactly when the targets held one
   named exactly as asked and neither the listing nor the deletion failed,
   and then the first such target, and nothing else, is gone; otherwise it
   returned False and the targets are as they were.  At most one target is
   deleted, and none of another name. *)
C7_DeleteTargetIfExists ==
    \A p \in Workers :
      call[p].pc = "create_target" =>
        LET c == call[p]
            pre == c.pre_targets
            removed == Ids(pre) \ Ids(targets)
            matches == { i \in 1..Len(pre) : pre[i].name = c.scan_name }
        IN /\ c.del_ret \in {"True", "False"}
           /\ c.del_ret = "True" <=> (matches # {} /\ c.errors \cap DeleteSteps = {})
           /\ c.del_ret = "True" =>
                 /\ \E i \in matches : /\ removed = {pre[i].id}
                                       /\ \A j \in matches : i <= j
           /\ c.del_ret = "False" => targets = pre
           /\ Cardinality(removed) <= 1
           /\ \A i \in 1..Len(pre) : pre[i].id \in removed => pre[i].name = c.scan_name
           /\ targets = SelectSeq(pre, LAMBDA t : t.id \notin removed)

C7_Witness ==
    \E p \in Workers :
        /\ call[p].pc = "create_target"
        /\ call[p].del_ret = "True"
        /\ Len(targets) < Len(call[p].pre_targets)

(* C8: a remote error while listing or deleting targets does not end
   trigger_scan: delete_target_if_exists returns False, and every call that
   authenticated issues create_target, whether the deletion step returned
   True, returned False or met a remote error. *)
C8_DeleteIsAdvisory ==
    /\ \A i \in 1..Len(hist) :
         LET e == hist[i] IN
         IsTrigger(e) =>
           /\ ( Occurs(e.issued, "authenticate") /\ "authenticate" \notin e.errors )
              => Occurs(e.issued, "create_target")
           /\ e.errors \cap DeleteSteps # {} => e.del_ret = "False"
           /\ e.issued # <<>> => Last(e.issued) \notin DeleteSteps
    /\ \A p \in Workers :
         call[p].errors \cap DeleteSteps # {} =>
             /\ call[p].pc \notin {"get_targets", "delete_target"}
             /\ call[p].del_ret = "False"

C8_Witness ==
    \E i \in 1..Len(hist) :
        /\ IsTrigger(hist[i])
        /\ "delete_target" \in hist[i].errors
        /\ Occurs(hist[i].issued, "create_target")
        /\ hist[i].result.kind = "ok"

(* The id of the first entity of listing named exactly name, None without *)
FirstExact(listing, name) ==
    LET S == { i \in 1..Len(listing) : listing[i].name = name }
    IN IF S = {} THEN None
       ELSE listing[CHOOSE i \in S : \A j \in S : i <= j].id

Resolved(outcome, listing, name) ==
    \/ outcome = Unset
    \/ outcome.exc = "GvmError"
    \/ /\ outcome.exc = "ValueError"
       /\ \A i \in 1..Len(listing) : listing[i].name # name
    \/ /\ outcome.exc = ""
       /\ outcome.value # None
       /\ outcome.value = FirstExact(listing, name)
       /\ \E i \in 1..Len(listing) :
             /\ listing[i].id = outcome.value
             /\ listing[i].name = name
             /\ \A j \in 1..(i - 1) : listing[j].name # name

(* C9: get_default_config_id and get_default_scanner_id return the id of the
   first listed entity named exactly 'Full and fast' / 'OpenVAS Default',
   and raise ValueError when no entity has that name; a prefix, a longer
   name or a case variant is never selected. *)
C9_ExactFirstMatch ==
    /\ Resolved(fout.config, configs, "Full and fast")
    /\ Resolved(fout.scanner, scanners, "OpenVAS Default")

C9_Witness ==
    /\ Len(configs) = 2
    /\ configs[1].name = "full and fast"
    /\ configs[2].name = "Full and fast"
    /\ fout.config = Value(configs[2].id)
    /\ Len(scanners) = 1
    /\ scanners[1].name = "OpenVAS"
    /\ fout.scanner = Raise("ValueError")

SlashPos(s) == { i \in 1..Len(s) : s[i] = "/" }
NthSlash(s, n) ==
    CHOOSE i \in SlashPos(s) : Cardinality({ j \in SlashPos(s) : j <= i }) = n
(* Element j of s split on "/": what lies between slash j-1 and slash j *)
Element(s, j) ==
    LET from == IF j = 1 THEN 1 ELSE NthSlash(s, j - 1) + 1
        to == IF j = Cardinality(SlashPos(s)) + 1 THEN Len(s)
              ELSE NthSlash(s, j) - 1
    IN SubSeq(s, from, to)

(* C10: the eight metrics of a severity value are taken by position: metric
   k is derived from element k+1 of the split on "/" when that element
   exists and is 'N/A' otherwise, so that the first element is dropped, an
   empty value gives eight 'N/A', and elements after the ninth are ignored. *)
C10_MetricsByPosition ==
    fout # <<>> =>
      /\ DOMAIN fout = 1..8
      /\ \A k \in 1..8 :
           fout[k] = IF fin # <<>> /\ k + 1 <= Cardinality(SlashPos(fin)) + 1
                     THEN metric_value(Element(fin, k + 1))
                     ELSE NA

C10_Witness ==
    /\ fout # <<>>
    /\ Cardinality(SlashPos(fin)) = 3
    /\ fin[1] = "N"
    /\ fout[1] = <<"N">>
    /\ fout[3] # NA
    /\ fout[4] = NA
    /\ fout[8] = NA

ColonPos(t) == { i \in 1..Len(t) : t[i] = ":" }
FirstColon(t) == CHOOSE i \in ColonPos(t) : \A j \in ColonPos(t) : i <= j
AfterFirstColon(t) == SubSeq(t, FirstColon(t) + 1, Len(t))
UpToNextColon(t) ==
    LET rest == AfterFirstColon(t)
    IN IF ColonPos(rest) = {} THEN rest
       ELSE SubSeq(rest, 1, FirstColon(rest) - 1)
(* The token metric k is derived from: element k+1 of the split on "/", or
   the padding 'N/A' *)
Token(k) ==
    IF fin # <<>> /\ k + 1 <= Cardinality(SlashPos(fin)) + 1
    THEN Element(fin, k + 1)
    ELSE NA
Letters(str) == [k \in 1..Len(str) |-> <<str[k]>>]

(* C11 as stated: for each of the eight metric positions, a token that
   contains ':' is emitted as the whole substring after its first ':',
   however many ':' it holds, and a token without ':' is emitted unchanged. *)
C11_WholeRemainder ==
    fout # <<>> =>
      \A k \in 1..8 :
         fout[k] = IF ColonPos(Token(k)) # {}
                   THEN AfterFirstColon(Token(k))
                   ELSE Token(k)

(* C11 amended: for each of the eight metric positions, a token that contains
   ':' is emitted as what lies between its first ':' and its next ':' (the
   end of the token when there is no other ':'), which is the whole substring
   after the first ':' exactly when the token holds one ':'; a token without
   ':' is emitted unchanged; and the vector
   'CVSS:3.1/AV:N/AC:L/PR:N/UI:N/S:U/C:H/I:H/A:H' gives N, L, N, N, U, H, H, H. *)
C11_UpToNextColon ==
    fout # <<>> =>
      /\ \A k \in 1..8 :
            fout[k] = IF ColonPos(Token(k)) # {}
                      THEN UpToNextColon(Token(k))
                      ELSE Token(k)
      /\ fin = Vector31 => fout = Letters(<<"N", "L", "N", "N", "U", "H", "H", "H">>)

C11_Witness ==
    /\ fout # <<>>
    /\ Token(1) = <<"N", ":", "N", ":", "N">>
    /\ fout[1] = <<"N">>
    /\ Token(2) = NA

(* The report has the whole path to the findings, a task that is not an
   empty element, several findings, and in each finding a cvss_base and no
   empty refs element *)
Normalizable(xml) ==
    /\ xml.have = 4
    /\ xml.task # Null
    /\ Len(xml.findings) >= 2
    /\ \A i \in 1..Len(xml.findings) :
         LET nvt == xml.findings[i].nvt
         IN /\ nvt.cvss_base # Absent
            /\ nvt.has_refs => Len(nvt.refs) > 0

CveIndexes(refs) == { i \in 1..Len(refs) : refs[i].type = "cve" }
ExpectedCve(nvt) ==
    IF ~nvt.has_refs \/ CveIndexes(nvt.refs) = {} THEN "N/A"
    ELSE LET i == CHOOSE j \in CveIndexes(nvt.refs) :
                      \A k \in CveIndexes(nvt.refs) : j <= k
         IN IF nvt.refs[i].id = Absent THEN "N/A" ELSE nvt.refs[i].id

(* C12: in the normalized report, the CVE of a finding is the id of its first
   reference of type 'cve' ('N/A' if that reference has no id), and 'N/A'
   when the finding has no references or none of type 'cve'; a finding with a
   single reference is handled as one with a one-element list. *)
C12_FirstCveReference ==
    (fout # Pending /\ Normalizable(fin)) =>
      /\ fout.kind = "report"
      /\ Len(fout.body.result_summary) = Len(fin.findings)
      /\ \A i \in 1..Len(fin.findings) :
            fout.body.result_summary[i].CVE = ExpectedCve(fin.findings[i].nvt)

C12_Witness ==
    /\ fout.kind = "report"
    /\ Len(fin.findings) = 2
    /\ fin.findings[1].nvt.refs = <<Cve("CVE-2023-0001")>>
    /\ fout.body.result_summary[1].CVE = "CVE-2023-0001"
    /\ ~fin.findings[2].nvt.has_refs
    /\ fout.body.result_summary[2].CVE = "N/A"

(* The report does not hold the path get_reports_response / report / report
   / results / result down to a finding: an element of the path is not there,
   or is there and empty *)
LacksPath(xml) == xml.have < 4 \/ Len(xml.findings) = 0

(* C13 as stated: when the report lacks the nested findings path, a key
   being missing or a value being null at any level, retrieve_results
   returns the null result, and no exception leaves it. *)
C13_LackingPathGivesNull ==
    (fout # Pending /\ LacksPath(fin)) => fout.kind = "null"

IsRetrieve(e) == e.op = "retrieve_results"

(* C14: a retrieve_results call whose get_report was failed by the remote
   service, for a scan id without report or for any other cause, returns the
   error dictionary: nothing is normalized and no exception reaches the
   caller. *)
C14_ReportFailureIsErrorResult ==
    \A i \in 1..Len(hist) :
       (IsRetrieve(hist[i]) /\ "get_report" \in hist[i].errors) =>
          /\ hist[i].result.kind = "error"
          /\ hist[i].result.exc = "GvmError"
          /\ hist[i].result = ErrorResult
          /\ Last(hist[i].issued) = "get_report"

C14_Witness ==
    /\ Len(hist) = 2
    /\ IsTrigger(hist[1]) /\ hist[1].result.kind = "ok"
    /\ IsRetrieve(hist[2])
    /\ hist[2].scan_id = hist[1].result.scan_id
    /\ hist[2].errors = {"get_report"}
    /\ hist[2].result = ErrorResult

(* C15: the targets of a normalized report are the set of the hosts of all
   its findings, each host once however many findings share it, which is the
   set of the Endpoint values of its summary records. *)
C15_TargetsAreFindingHosts ==
    (fout # Pending /\ Normalizable(fin)) =>
      /\ fout.kind = "report"
      /\ fout.body.targets =
           { fin.findings[i].host : i \in 1..Len(fin.findings) }
      /\ fout.body.targets =
           { fout.body.result_summary[i].Endpoint :
               i \in 1..Len(fout.body.result_summary) }

C15_Witness ==
    /\ fout.kind = "report"
    /\ Len(fin.findings) = 2
    /\ fin.findings[1].host = "10.0.0.2"
    /\ fin.findings[2].host = "10.0.0.2"
    /\ fout.body.targets = {"10.0.0.2"}
    /\ fout.body.result_summary[2].Endpoint = "10.0.0.2"

BeforeCreate == <<"connect", "authenticate", "get_targets">>
FromCreate ==
    <<"create_target", "get_configs", "get_scanners", "create_task",
      "start_task">>
TaskOf(id) == CHOOSE t \in { tasks[i] : i \in 1..Len(tasks) } : t.id = id

(* C16: every trigger_scan call that returned a scan id issued its remote
   operations in the order authenticate (on the opened session), get_targets
   with at most one delete_target after it, create_target, get_configs,
   get_scanners, create_task, start_task, each of create_target, create_task
   and start_task once; its task was created with the id of the target the
   call created, start_task ran on that task, and the scan id it returned is
   the report id start_task gave that task. *)
C16_OrderOfRemoteOperations ==
    \A i \in 1..Len(hist) :
       (IsTrigger(hist[i]) /\ hist[i].result.kind = "ok") =>
          LET e == hist[i] IN
          /\ e.issued \in { BeforeCreate \o FromCreate,
                             BeforeCreate \o <<"delete_target">> \o FromCreate }
          /\ e.target_id # None /\ e.task_id # None
          /\ e.task_id \in Ids(tasks)
          /\ TaskOf(e.task_id).target_id = e.target_id
          /\ TaskOf(e.task_id).name = e.scan_name
          /\ e.result.scan_id # None
          /\ e.result.scan_id = TaskOf(e.task_id).report_id
          /\ Cardinality({ j \in 1..Len(tasks) :
                             tasks[j].report_id = e.result.scan_id }) = 1

C16_Witness ==
    /\ Len(hist) = 1
    /\ IsTrigger(hist[1]) /\ hist[1].result.kind = "ok"
    /\ hist[1].issued = BeforeCreate \o <<"delete_target">> \o FromCreate
    /\ hist[1].errors = {}
    /\ TaskOf(hist[1].task_id).target_id = hist[1].target_id
    /\ TaskOf(hist[1].task_id).report_id = hist[1].result.scan_id

InFlight(p) == call[p].op = "trigger_scan" /\ call[p].pc # "idle"
SameName(p, q) ==
    InFlight(p) /\ InFlight(q) /\ call[p].scan_name = call[q].scan_name
(* Call p has created its target, which call q's listing did not hold: q
   completed its conflicting-target check before p created its target *)
CreatedAfterCheckOf(p, q) ==
    /\ call[p].target_id # None
    /\ call[q].pc \notin {"connect", "authenticate", "get_targets"}
    /\ call[p].target_id \notin Ids(call[q].pre_targets)
(* Both calls completed their check and neither has created its target *)
BothChecked(p, q) ==
    /\ SameName(p, q)
    /\ call[p].pc = "create_target" /\ call[q].pc = "create_target"

(* C17: two trigger_scan calls of the same name that run at the same time
   are not serialized.  When both have completed their conflicting-target
   check before either creates its target, each step of either call is its
   create_target, issued with no deletion in between: it fails with the
   remote error as the call's result, or adds a target of the name and
   removes none; and while two such calls are under way that have both
   created their target, each having checked before the other created, both
   targets exist, two of the same name. *)
C17_CheckThenCreateRace ==
    /\ [][ \A p \in Workers : \A q \in Workers \ {p} :
             (BothChecked(p, q) /\ call'[p] # call[p]) =>
                /\ call'[q] = call[q]
                /\ \/ /\ call'[p].pc = "get_configs"
                      /\ call'[p].target_id # None
                      /\ targets' = Append(targets,
                            [id |-> call'[p].target_id,
                             name |-> call[p].scan_name,
                             hosts |-> call[p].hosts])
                   \/ /\ call'[p].pc = "idle"
                      /\ targets' = targets
                      /\ Last(hist').errors = {"create_target"}
                             \cup call[p].errors
                      /\ Last(hist').result = ErrorResult ]_vars
    /\ [](\A p \in Workers : \A q \in Workers \ {p} :
             (SameName(p, q) /\ CreatedAfterCheckOf(p, q)
                             /\ CreatedAfterCheckOf(q, p)) =>
                /\ HasId(targets, call[p].target_id)
                /\ HasId(targets, call[q].target_id)
                /\ NamedCount(targets, call[p].scan_name) >= 2)

(* Neither call found a target of the name, no remote call failed, and both
   created their own *)
C17_Witness ==
    /\ SameName(1, 2)
    /\ CreatedAfterCheckOf(1, 2) /\ CreatedAfterCheckOf(2, 1)
    /\ call[1].errors = {} /\ call[2].errors = {}
    /\ call[1].del_ret = "False" /\ call[2].del_ret = "False"
    /\ NamedCount(targets, call[1].scan_name) = 2

(* The report has the whole path down to results, a task that is not an
   empty element, and n >= 0 findings, each with a cvss_base and no empty
   refs element *)
HasFindings(xml) ==
    /\ xml.have = 4
    /\ xml.task # Null
    /\ \A i \in 1..Len(xml.findings) :
         LET nvt == xml.findings[i].nvt
         IN /\ nvt.cvss_base # Absent
            /\ nvt.has_refs => Len(nvt.refs) > 0

(* C18 as stated: for a report with n >= 0 findings, n = 1 included, the
   normalized report holds n detail records and n summary records, in the
   order of the findings, record i of both derived from finding i. *)
C18_OneRecordPerFinding ==
    (fout # Pending /\ HasFindings(fin)) =>
      /\ fout.kind = "report"
      /\ Len(fout.body.result_details) = Len(fin.findings)
      /\ Len(fout.body.result_summary) = Len(fin.findings)
      /\ \A i \in 1..Len(fin.findings) :
            /\ fout.body.result_details[i].id = fin.findings[i].id
            /\ fout.body.result_details[i].score
                  = fin.findings[i].nvt.cvss_base
            /\ fout.body.result_summary[i].Endpoint = fin.findings[i].host
            /\ fout.body.result_summary[i].CVE
                  = ExpectedCve(fin.findings[i].nvt)

LacksScore(xml) ==
    \E i \in 1..Len(xml.findings) : xml.findings[i].nvt.cvss_base = Absent
(* Nothing but a missing cvss_base stands in the way of the normalization *)
SoundButForScore(xml) ==
    /\ xml.have = 4
    /\ xml.task # Null
    /\ Len(xml.findings) >= 2
    /\ \A i \in 1..Len(xml.findings) :
         xml.findings[i].nvt.has_refs => Len(xml.findings[i].nvt.refs) > 0

(* C19: a finding without cvss_base makes the normalization of the whole
   report fail: no normalized report is produced, not even one holding the
   records of the other findings, and the failure is the KeyError of the
   detail record when nothing else is wrong with the report. *)
C19_MissingScoreFailsReport ==
    (fout # Pending /\ LacksScore(fin)) =>
      /\ fout.kind = "raised"
      /\ fout.body = <<>>
      /\ SoundButForScore(fin) => fout.exc = "KeyError"

C19_Witness ==
    /\ Len(fin.findings) = 2
    /\ fin.findings[1].nvt.cvss_base = "7.5"
    /\ fin.findings[2].nvt.cvss_base = Absent
    /\ SoundButForScore(fin)
    /\ fout.kind = "raised"
    /\ fout.exc = "KeyError"

TargetOf(id) ==
    CHOOSE t \in { targets[i] : i \in 1..Len(targets) } : t.id = id

(* C20: the trigger endpoint validates before it acts.  A request whose
   scan_name or targets is missing or empty is answered 400 with no session
   opened and no remote call issued, and only such a request is; trigger_scan
   is entered only with both values non-empty; when trigger_scan returns an
   error result the answer is 500 with that error, and when it returns a
   scan id the answer is 200 with message, scan_name, targets and scan_id. *)
C20_ValidateThenAnswer ==
    /\ [](\A i \in 1..Len(hist) :
             LET e == hist[i] IN
             /\ e.op = "trigger_scan_api" =>
                  /\ e.scan_name \in {Null, ""} \/ e.hosts \in {Null, ""}
                  /\ e.response.status = 400
                  /\ e.response.body.error = "scan_name, targets, are required"
                  /\ e.issued = <<>>
                  /\ e.result = NotCalled
             /\ (IsTrigger(e) /\ e.result.kind = "error") =>
                  e.response = [status |-> 500,
                                body |-> [error |-> e.result.exc]]
             /\ (IsTrigger(e) /\ e.result.kind = "ok") =>
                  e.response =
                    [status |-> 200,
                     body |-> [message |-> "Scan started",
                               scan_name |-> e.scan_name,
                               targets |-> TargetOf(e.target_id).hosts,
                               scan_id |-> e.result.scan_id]])
    /\ [][ \A p \in Workers :
             (call[p].pc = "idle" /\ call'[p].pc # "idle") =>
                /\ call'[p].scan_name \notin {Null, ""}
                /\ call'[p].hosts \notin {Null, ""}
                /\ call'[p].issued = <<>> ]_vars
    /\ [][ (AllIdle /\ hist' # hist) =>
             /\ Last(hist').op = "trigger_scan_api"
             /\ Last(hist').response = BadRequest
             /\ remote' = remote /\ call' = call ]_vars

C20_Witness ==
    /\ Len(hist) = 1
    /\ hist[1].op = "trigger_scan_api"
    /\ hist[1].scan_name = "web"
    /\ hist[1].hosts = ""
    /\ hist[1].response.status = 400
    /\ hist[1].issued = <<>>
    /\ targets = <<>>

====
